---------------------------- MODULE Spec2Model ----------------------------
(***************************************************************************)
(* A model of app.py: the Flask file-storage gateway in front of one S3    *)
(* bucket.  The state is the process phase of the __main__ block, the user *)
(* table, the login session, the bucket's objects, the wall clock, the     *)
(* presigned link the user holds, and the last request with its response.   *)
(*                                                                         *)
(* Strings the code takes apart (filenames, keys) are sequences of         *)
(* one-character strings, so that rsplit, split, lower, secure_filename    *)
(* and strftime are computed the way the code computes them.               *)
(***************************************************************************)
EXTENDS Naturals, Sequences, FiniteSets

VARIABLES phase, probes, users, session, store, clock, held, last

vars == <<phase, probes, users, session, store, clock, held, last>>

---------------------------------------------------------------------------
(* Strings.                                                                *)

UpperCase == <<"A","B","C","D","E","F","G","H","I","J","K","L","M",
               "N","O","P","Q","R","S","T","U","V","W","X","Y","Z">>

LowerCase == <<"a","b","c","d","e","f","g","h","i","j","k","l","m",
               "n","o","p","q","r","s","t","u","v","w","x","y","z">>

DigitChars == <<"0","1","2","3","4","5","6","7","8","9">>

Range(s) == {s[i] : i \in 1..Len(s)}

\* str.lower() on one character
LowerChar(c) ==
    IF \E i \in 1..Len(UpperCase) : UpperCase[i] = c
    THEN LowerCase[CHOOSE i \in 1..Len(UpperCase) : UpperCase[i] = c]
    ELSE c

\* str.lower()
Lower(s) == [i \in 1..Len(s) |-> LowerChar(s[i])]

\* c in s
Contains(s, c) == \E i \in 1..Len(s) : s[i] = c

\* s.rsplit(c, 1)[1], for s that contains c: the text after the last c
RSplitLast(s, c) ==
    LET i == CHOOSE j \in 1..Len(s) :
                 s[j] = c /\ \A k \in (j+1)..Len(s) : s[k] # c
    IN  SubSeq(s, i + 1, Len(s))

\* s.split(c, 1)[1], for s that contains c: the text after the first c
SplitFirst(s, c) ==
    LET i == CHOOSE j \in 1..Len(s) :
                 s[j] = c /\ \A k \in 1..(j-1) : s[k] # c
    IN  SubSeq(s, i + 1, Len(s))

\* two decimal digits of n < 100, as strftime's %m %d %H %M %S print them
Digits2(n) == <<DigitChars[(n \div 10) + 1], DigitChars[(n % 10) + 1]>>

\* four decimal digits of n < 10000, as strftime's %Y prints them
Digits4(n) == Digits2(n \div 100) \o Digits2(n % 100)

---------------------------------------------------------------------------
(* Configuration of app.py.                                                *)

\* app.config['MAX_CONTENT_LENGTH']
MAX_CONTENT_LENGTH == 100 * 1024 * 1024

ALLOWED_EXTENSIONS ==
    { <<"t","x","t">>, <<"p","d","f">>, <<"p","n","g">>, <<"j","p","g">>,
      <<"j","p","e","g">>, <<"g","i","f">>, <<"d","o","c">>,
      <<"d","o","c","x">>, <<"x","l","s">>, <<"x","l","s","x">>,
      <<"z","i","p">>, <<"r","a","r">> }

\* allowed_file(filename)
allowed_file(filename) ==
    Contains(filename, ".")
        /\ Lower(RSplitLast(filename, ".")) \in ALLOWED_EXTENSIONS

\* get_file_size_mb(size_bytes), in hundredths of a MB: round(x, 2) of the
\* exact quotient size_bytes / 2^20, ties to the even hundredth
get_file_size_mb(size_bytes) ==
    LET mb  == 1024 * 1024
        q   == size_bytes \div mb
        r   == (size_bytes % mb) * 100
        a   == r \div mb
        b   == r % mb
        up  == (2 * b > mb) \/ (2 * b = mb /\ a % 2 = 1)
    IN  q * 100 + a + (IF up THEN 1 ELSE 0)

---------------------------------------------------------------------------
(* werkzeug.utils.secure_filename, as upload_file calls it.  Its first     *)
(* step (NFKD normalisation, then dropping what is not ASCII) leaves the   *)
(* ASCII filenames of this model as they are.                              *)

\* the characters _filename_ascii_strip_re keeps: [A-Za-z0-9_.-]
SafeChars ==
    Range(UpperCase) \cup Range(LowerCase) \cup Range(DigitChars)
        \cup {"_", ".", "-"}

\* filename.replace(os.sep, " ")
ReplaceSep(s) == [i \in 1..Len(s) |-> IF s[i] = "/" THEN " " ELSE s[i]]

\* filename.split(): the maximal runs of non-blank characters
RECURSIVE SplitWs(_)
SplitWs(s) ==
    IF s = <<>> THEN <<>>
    ELSE IF Head(s) = " " THEN SplitWs(Tail(s))
    ELSE LET n == IF Contains(s, " ")
                  THEN (CHOOSE j \in 1..Len(s) :
                           s[j] = " " /\ \A k \in 1..(j-1) : s[k] # " ") - 1
                  ELSE Len(s)
         IN  <<SubSeq(s, 1, n)>> \o SplitWs(SubSeq(s, n + 1, Len(s)))

\* sep.join(words)
RECURSIVE Join(_, _)
Join(words, sep) ==
    IF words = <<>> THEN <<>>
    ELSE IF Len(words) = 1 THEN words[1]
    ELSE words[1] \o sep \o Join(Tail(words), sep)

\* s.strip(chars)
RECURSIVE Strip(_, _)
Strip(s, chars) ==
    IF s = <<>> THEN <<>>
    ELSE IF Head(s) \in chars THEN Strip(Tail(s), chars)
    ELSE IF s[Len(s)] \in chars THEN Strip(SubSeq(s, 1, Len(s) - 1), chars)
    ELSE s

secure_filename(filename) ==
    LET joined == Join(SplitWs(ReplaceSep(filename)), <<"_">>)
        kept   == SelectSeq(joined, LAMBDA c : c \in SafeChars)
    IN  Strip(kept, {".", "_"})

---------------------------------------------------------------------------
(* The wall clock.  clock counts the seconds since the process started, at *)
(* Epoch; datetime.now() is Epoch plus clock (the model's runs stay within *)
(* the month of Epoch).                                                    *)

Epoch == [year |-> 2024, month |-> 1, day |-> 15,
          hour |-> 9, minute |-> 30, second |-> 0]

\* datetime.now()
Now(t) ==
    LET s == ((Epoch.hour * 60) + Epoch.minute) * 60 + Epoch.second + t
    IN  [year |-> Epoch.year, month |-> Epoch.month,
         day |-> Epoch.day + (s \div 86400),
         hour |-> (s % 86400) \div 3600,
         minute |-> (s % 3600) \div 60,
         second |-> s % 60]

\* d.strftime('%Y%m%d_%H%M%S')
StrftimeKey(d) ==
    Digits4(d.year) \o Digits2(d.month) \o Digits2(d.day) \o <<"_">>
        \o Digits2(d.hour) \o Digits2(d.minute) \o Digits2(d.second)

\* d.strftime('%Y-%m-%d %H:%M:%S')
StrftimeDisplay(d) ==
    Digits4(d.year) \o <<"-">> \o Digits2(d.month) \o <<"-">>
        \o Digits2(d.day) \o <<" ">> \o Digits2(d.hour) \o <<":">>
        \o Digits2(d.minute) \o <<":">> \o Digits2(d.second)

\* unique_filename = f"{timestamp}_{filename}"
unique_filename(timestamp, filename) == timestamp \o <<"_">> \o filename

\* obj['Key'].split('_', 1)[1] if '_' in obj['Key'] else obj['Key']
original_name(key) ==
    IF Contains(key, "_") THEN SplitFirst(key, "_") ELSE key

---------------------------------------------------------------------------
(* The requests the model sends.                                           *)

\* objects the bucket holds at most (an upload that would add one more waits)
MaxObjects == 2

\* the same, in the runs that follow presigned links
MaxLinkObjects == 1

\* the last second the clock reaches in the runs that do not follow links
MaxSecond == 1

\* bytes of multipart framing around the file in an upload's request body
FormOverhead == 200

Anonymous == "anonymous"

Usernames == {"alice"}

Passwords == {"secret", "guess"}

ReportPdf == <<"r","e","p","o","r","t",".","p","d","f">>

\* the files a user picks: their bytes (by name) and their size
SmallFile == [content |-> "bytes1", size |-> 2000000]

FullFile == [content |-> "bytes2", size |-> MAX_CONTENT_LENGTH - FormOverhead]

CeilingFile == [content |-> "bytes3", size |-> MAX_CONTENT_LENGTH]

OverFile == [content |-> "bytes4", size |-> MAX_CONTENT_LENGTH + 1]

\* the file fields the model posts: "report.pdf" at each size,
\* "../report.pdf", "My File.PDF", "notes", "x.exe" and ""
FileFields ==
    { [filename |-> ReportPdf, file |-> SmallFile],
      [filename |-> ReportPdf, file |-> FullFile],
      [filename |-> ReportPdf, file |-> CeilingFile],
      [filename |-> ReportPdf, file |-> OverFile],
      [filename |-> <<".",".","/">> \o ReportPdf, file |-> SmallFile],
      [filename |-> <<"M","y"," ","F","i","l","e",".","P","D","F">>,
       file |-> SmallFile],
      [filename |-> <<"n","o","t","e","s">>, file |-> SmallFile],
      [filename |-> <<"x",".","e","x","e">>, file |-> SmallFile],
      [filename |-> <<"x",".","e","x","e">>, file |-> OverFile],
      [filename |-> <<>>, file |-> SmallFile] }

NoFile == [content |-> "", size |-> 0]

\* "ghost.pdf": a key no upload produces
MissingKey == <<"g","h","o","s","t",".","p","d","f">>

\* the instants the clock visits in the runs that follow presigned links
LinkInstants == {0, 1, 3600, 604800}

\* what a call to S3 can raise instead of returning
S3Faults == {"ClientError", "EndpointConnectionError"}

\* no link held.  A held link is the presigned URL (its key, its signing
\* time and its lifetime), with the route that issued it and what the
\* bucket held under the key then ("none": nothing)
NoLink == [url |-> [Key |-> <<>>, Date |-> 0, Expires |-> 0],
           route |-> "none", etag |-> "none"]

\* the last request and its answer: the route, who asked, what was asked,
\* whether it repeats the request before it, what the S3 call raised, the
\* answer, the number of calls made to S3, and what the answer carries
Idle == [op |-> "none", user |-> Anonymous, req |-> <<>>, repeat |-> FALSE,
         fault |-> "none", outcome |-> "none", calls |-> 0, body |-> <<>>]

StorageOps == {"upload", "list", "download", "delete", "share", "stats"}

---------------------------------------------------------------------------
(* The bucket, as the calls of app.py see it.                              *)

Keys(bucket) == {o.Key : o \in bucket}

ObjectAt(bucket, key) == CHOOSE o \in bucket : o.Key = key

ContentAt(bucket, key) ==
    IF key \in Keys(bucket) THEN ObjectAt(bucket, key).Body ELSE "none"

\* s3_client.upload_fileobj(file, S3_BUCKET, key): the object under key is
\* replaced, or added
S3PutObject(bucket, key, file, t) ==
    {o \in bucket : o.Key # key}
        \cup {[Key |-> key, Body |-> file.content, Size |-> file.size,
               LastModified |-> t]}

\* a delete that answers NoSuchKey for a key that is not stored
S3DeleteObject_NoSuchKey(bucket, key) ==
    IF key \in Keys(bucket)
    THEN [error |-> "none", bucket |-> {o \in bucket : o.Key # key}]
    ELSE [error |-> "ClientError", bucket |-> bucket]

\* s3_client.delete_object(Bucket=S3_BUCKET, Key=key): S3 answers 204
\* whether or not the key exists
S3DeleteObject(bucket, key) ==
    [error |-> "none", bucket |-> {o \in bucket : o.Key # key}]

RECURSIVE SumSize(_)
\* sum(obj['Size'] for obj in response['Contents'])
SumSize(bucket) ==
    IF bucket = {} THEN 0
    ELSE LET o == CHOOSE x \in bucket : TRUE
         IN  o.Size + SumSize(bucket \ {o})

\* the files list list_files builds from response['Contents']
DisplayEntries(bucket) ==
    { [key |-> o.Key,
       size |-> get_file_size_mb(o.Size),
       last_modified |-> StrftimeDisplay(Now(o.LastModified)),
       original_name |-> original_name(o.Key)] : o \in bucket }

\* except ClientError as e
Caught(fault) == fault = "ClientError"

\* what a handler answers when its S3 call raises fault
OnFault(fault, handled) ==
    IF Caught(fault) THEN handled ELSE "unhandled_exception"

\* a route left without @login_required
login_required_Open(user) == TRUE

\* @login_required: current_user.is_authenticated
login_required(user) == user # Anonymous

\* generate_password_hash(password)
generate_password_hash(password) == [pbkdf2 |-> password]

\* check_password_hash(pwhash, password)
check_password_hash(pwhash, password) == pwhash.pbkdf2 = password

---------------------------------------------------------------------------
(* The state after app.py is loaded and before its __main__ block runs.    *)

Init ==
    /\ phase = "main"
    /\ probes = 0
    /\ users = {}
    /\ session = Anonymous
    /\ store = {}
    /\ clock = 0
    /\ held = NoLink
    /\ last = Idle

Answer(op, user, req, fault, outcome, calls, body) ==
    [op |-> op, user |-> user, req |-> req,
     repeat |-> (last.op = op /\ last.req = req), fault |-> fault,
     outcome |-> outcome, calls |-> calls, body |-> body]

\* @login_required answering for the handler: redirect to the login view
Unauthorized(op, req) ==
    Answer(op, Anonymous, req, "none", "login_redirect", 0, <<>>)

---------------------------------------------------------------------------
(* if __name__ == '__main__'                                               *)

\* a start that goes on to app.run whatever the credentials and the probe
MainPhase_Fallback(credentials, probe) == "serving"

\* exit(1) without credentials or when the probe raises, else app.run
MainPhase(credentials, probe) ==
    IF ~credentials THEN "exited"
    ELSE IF probe # "none" THEN "exited"
    ELSE "serving"

MainOutcome(credentials, probe) ==
    IF ~credentials THEN "exit_1_missing_credentials"
    ELSE IF probe # "none" THEN "exit_1_cannot_connect"
    ELSE "connected"

Main ==
    /\ phase = "main"
    /\ \E credentials \in BOOLEAN, probe \in {"none"} \cup S3Faults :
          /\ phase' = MainPhase(credentials, probe)
          /\ probes' = IF credentials THEN probes + 1 ELSE probes
          /\ last' = Answer("main", Anonymous, credentials,
                            IF credentials THEN probe ELSE "none",
                            MainOutcome(credentials, probe),
                            IF credentials THEN 1 ELSE 0, <<>>)
    /\ UNCHANGED <<users, session, store, clock, held>>

---------------------------------------------------------------------------
(* Accounts and sessions.                                                  *)

register ==
    /\ phase = "serving"
    /\ \E username \in Usernames, password \in Passwords :
          LET req == [username |-> username, password |-> password]
          IN  IF session # Anonymous
              THEN /\ users' = users
                   /\ last' = Answer("register", session, req, "none",
                                     "redirect_index", 0, <<>>)
              ELSE IF \E u \in users : u.username = username
              THEN /\ users' = users
                   /\ last' = Answer("register", session, req, "none",
                                     "username_exists", 0, <<>>)
              ELSE /\ users' = users \cup
                          {[username |-> username,
                            password |-> generate_password_hash(password)]}
                   /\ last' = Answer("register", session, req, "none",
                                     "registered", 0, <<>>)
    /\ UNCHANGED <<phase, probes, session, store, clock, held>>

login ==
    /\ phase = "serving"
    /\ \E username \in Usernames, password \in Passwords :
          LET req == [username |-> username, password |-> password]
              ok  == \E u \in users :
                        /\ u.username = username
                        /\ check_password_hash(u.password, password)
          IN  IF session # Anonymous
              THEN /\ session' = session
                   /\ last' = Answer("login", session, req, "none",
                                     "redirect_index", 0, <<>>)
              ELSE IF ok
              THEN /\ session' = username
                   /\ last' = Answer("login", session, req, "none",
                                     "logged_in", 0, <<>>)
              ELSE /\ session' = session
                   /\ last' = Answer("login", session, req, "none",
                                     "invalid_login", 0, <<>>)
    /\ UNCHANGED <<phase, probes, users, store, clock, held>>

logout ==
    /\ phase = "serving"
    /\ IF ~login_required(session)
       THEN /\ session' = session
            /\ last' = Unauthorized("logout", <<>>)
       ELSE /\ session' = Anonymous
            /\ last' = Answer("logout", session, <<>>, "none",
                              "logged_out", 0, <<>>)
    /\ UNCHANGED <<phase, probes, users, store, clock, held>>

---------------------------------------------------------------------------
(* /upload                                                                 *)

\* the uploads of the runs that follow presigned links
LinkUploads ==
    {[method |-> "POST", hasFile |-> TRUE, filename |-> ReportPdf, file |-> f] :
        f \in {SmallFile, FullFile}}

UploadRequests ==
    {[method |-> "GET", hasFile |-> FALSE, filename |-> <<>>, file |-> NoFile]}
        \cup {[method |-> "POST", hasFile |-> FALSE, filename |-> <<>>,
               file |-> NoFile]}
        \cup {[method |-> "POST", hasFile |-> TRUE, filename |-> f.filename,
               file |-> f.file] : f \in FileFields}

\* request.content_length: the multipart body holds the file and its framing
ContentLength(req) ==
    IF req.method = "GET" THEN 0
    ELSE IF req.hasFile THEN req.file.size + FormOverhead
    ELSE FormOverhead

\* an upload_file without its allowed_file test
UploadDecision_NoTypeCheck(req) ==
    IF req.method = "GET" THEN "upload_form"
    ELSE IF ContentLength(req) > MAX_CONTENT_LENGTH THEN "too_large"
    ELSE IF ~req.hasFile THEN "no_file_selected"
    ELSE IF req.filename = <<>> THEN "no_file_selected"
    ELSE "accept"

\* what upload_file decides before it calls S3.  Reading request.files
\* parses the form, which raises 413 (handled by too_large) when the
\* request's content length exceeds MAX_CONTENT_LENGTH
UploadDecision(req) ==
    IF req.method = "GET" THEN "upload_form"
    ELSE IF ContentLength(req) > MAX_CONTENT_LENGTH THEN "too_large"
    ELSE IF ~req.hasFile THEN "no_file_selected"
    ELSE IF req.filename = <<>> THEN "no_file_selected"
    ELSE IF allowed_file(req.filename) THEN "accept"
    ELSE "type_not_allowed"

\* the key upload_file stores the file under at clock time t
UploadKey(req, t) ==
    unique_filename(StrftimeKey(Now(t)), secure_filename(req.filename))

upload_file(requests, capacity) ==
    /\ phase = "serving"
    /\ \E req \in requests, fault \in {"none"} \cup S3Faults :
          LET decision == UploadDecision(req)
              filename == secure_filename(req.filename)
              key      == UploadKey(req, clock)
          IN  IF ~login_required(session)
              THEN /\ store' = store
                   /\ last' = Unauthorized("upload", req)
              ELSE IF decision # "accept"
              THEN /\ store' = store
                   /\ last' = Answer("upload", session, req, "none",
                                     decision, 0, <<>>)
              ELSE IF fault # "none"
              THEN /\ store' = store
                   /\ last' = Answer("upload", session, req, fault,
                                     OnFault(fault, "upload_error"), 1, <<>>)
              ELSE /\ key \in Keys(store) \/ Cardinality(store) < capacity
                   /\ store' = S3PutObject(store, key, req.file, clock)
                   /\ last' = Answer("upload", session, req, "none",
                                     "uploaded", 1, filename)
    /\ UNCHANGED <<phase, probes, users, session, clock, held>>

---------------------------------------------------------------------------
(* /files and /api/storage-stats                                           *)

list_files ==
    /\ phase = "serving"
    /\ \E fault \in {"none"} \cup S3Faults :
          IF ~login_required(session)
          THEN last' = Unauthorized("list", <<>>)
          ELSE IF fault # "none"
          THEN last' = Answer("list", session, <<>>, fault,
                              OnFault(fault, "list_error"), 1, {})
          ELSE last' = Answer("list", session, <<>>, "none", "listed", 1,
                              DisplayEntries(store))
    /\ UNCHANGED <<phase, probes, users, session, store, clock, held>>

storage_stats ==
    /\ phase = "serving"
    /\ \E fault \in {"none"} \cup S3Faults :
          IF ~login_required(session)
          THEN last' = Unauthorized("stats", <<>>)
          ELSE IF fault # "none"
          THEN last' = Answer("stats", session, <<>>, fault,
                              OnFault(fault, "error_500_json"), 1, <<>>)
          ELSE last' = Answer("stats", session, <<>>, "none", "stats", 1,
                              [file_count |-> Cardinality(store),
                               total_size_mb |->
                                   get_file_size_mb(SumSize(store)),
                               bucket_name |-> "S3_BUCKET"])
    /\ UNCHANGED <<phase, probes, users, session, store, clock, held>>

---------------------------------------------------------------------------
(* /download/<filename>, /share/<filename>, /delete/<filename>             *)

\* the <path:filename> parts the model requests: the keys stored, one that
\* never was, the key of the link held and the key last asked for
KeyInputs ==
    Keys(store) \cup {MissingKey}
        \cup (IF held = NoLink THEN {} ELSE {held.url.Key})
        \cup (IF last.op \in {"download", "share", "delete"}
              THEN {last.req} ELSE {})

\* download_file with the lifetime of share_file
DownloadExpiresIn_Week == 7 * 24 * 3600

\* ExpiresIn of download_file
DownloadExpiresIn == 3600

\* ExpiresIn of share_file
ShareExpiresIn == 604800

\* s3_client.generate_presigned_url('get_object', Params, ExpiresIn): signed
\* locally; the bucket is not asked whether the key exists
generate_presigned_url(key, expiresIn, t) ==
    [Key |-> key, Date |-> t, Expires |-> expiresIn]

download_file(keep) ==
    /\ phase = "serving"
    /\ \E filename \in KeyInputs :
          IF ~login_required(session)
          THEN /\ held' = held
               /\ last' = Unauthorized("download", filename)
          ELSE LET url == generate_presigned_url(filename, DownloadExpiresIn,
                                                 clock)
               IN  /\ held' = IF keep
                               THEN [url |-> url, route |-> "download",
                                     etag |-> ContentAt(store, filename)]
                               ELSE held
                   /\ last' = Answer("download", session, filename, "none",
                                     "redirect_to_url", 1, url)
    /\ UNCHANGED <<phase, probes, users, session, store, clock>>

share_file(keep) ==
    /\ phase = "serving"
    /\ \E filename \in KeyInputs :
          IF ~login_required(session)
          THEN /\ held' = held
               /\ last' = Unauthorized("share", filename)
          ELSE LET url == generate_presigned_url(filename, ShareExpiresIn,
                                                 clock)
               IN  /\ held' = IF keep
                               THEN [url |-> url, route |-> "share",
                                     etag |-> ContentAt(store, filename)]
                               ELSE held
                   /\ last' = Answer("share", session, filename, "none",
                                     "share_page", 1, url)
    /\ UNCHANGED <<phase, probes, users, session, store, clock>>

delete_file ==
    /\ phase = "serving"
    /\ \E filename \in KeyInputs, fault \in {"none"} \cup S3Faults :
          LET done == S3DeleteObject(store, filename)
          IN  IF ~login_required(session)
              THEN /\ store' = store
                   /\ last' = Unauthorized("delete", filename)
              ELSE IF fault # "none"
              THEN /\ store' = store
                   /\ last' = Answer("delete", session, filename, fault,
                                     OnFault(fault, "delete_error"), 1, <<>>)
              ELSE IF done.error # "none"
              THEN /\ store' = done.bucket
                   /\ last' = Answer("delete", session, filename, "none",
                                     OnFault(done.error, "delete_error"), 1,
                                     <<>>)
              ELSE /\ store' = done.bucket
                   /\ last' = Answer("delete", session, filename, "none",
                                     "deleted", 1, <<>>)
    /\ UNCHANGED <<phase, probes, users, session, clock, held>>

---------------------------------------------------------------------------
(* Outside app.py: time passes, and whoever holds a presigned link asks S3 *)
(* for the object, with no session.                                        *)

\* S3 answering GET on a presigned URL at time t
S3GetObject(bucket, url, t) ==
    IF t >= url.Date + url.Expires
    THEN [status |-> "403_expired", body |-> "none"]
    ELSE IF url.Key \in Keys(bucket)
    THEN [status |-> "200", body |-> ContentAt(bucket, url.Key)]
    ELSE [status |-> "404_no_such_key", body |-> "none"]

Retrieve ==
    /\ held # NoLink
    /\ LET got == S3GetObject(store, held.url, clock)
       IN  last' = Answer("retrieve", Anonymous, held.url, "none",
                          got.status, 0, got.body)
    /\ UNCHANGED <<phase, probes, users, session, store, clock, held>>

Tick(instants) ==
    /\ \E t \in instants : t > clock /\ clock' = t
    /\ UNCHANGED <<phase, probes, users, session, store, held, last>>

\* the site: every handler, a clock of seconds, links not followed
Next ==
    \/ Main
    \/ register
    \/ login
    \/ logout
    \/ upload_file(UploadRequests, MaxObjects)
    \/ list_files
    \/ storage_stats
    \/ download_file(FALSE)
    \/ share_file(FALSE)
    \/ delete_file
    \/ Tick(0..MaxSecond)

Spec == Init /\ [][Next]_vars

\* presigned links: issued, kept, and followed while hours and days pass
NextLinks ==
    \/ Main
    \/ register
    \/ login
    \/ logout
    \/ upload_file(LinkUploads, MaxLinkObjects)
    \/ download_file(TRUE)
    \/ share_file(TRUE)
    \/ delete_file
    \/ Retrieve
    \/ Tick(LinkInstants)

SpecLinks == Init /\ [][NextLinks]_vars

---------------------------------------------------------------------------
(* Properties.                                                             *)

UploadStep == upload_file(UploadRequests, MaxObjects)

\* the filename ends in "." and an extension of the allow-list, whatever
\* the case of its letters, and that extension is all that follows its last "."
HasAllowedExtension(filename) ==
    \E ext \in ALLOWED_EXTENSIONS :
        /\ Len(filename) > Len(ext)
        /\ filename[Len(filename) - Len(ext)] = "."
        /\ Lower(SubSeq(filename, Len(filename) - Len(ext) + 1, Len(filename)))
               = ext

\* the upload got past validation: upload_file went on to call S3
PassedValidation(answer) ==
    answer.outcome \in {"uploaded", "upload_error", "unhandled_exception"}

\* the lifetime the interface promises for the links of a route
PromisedLifetime(route) == IF route = "download" THEN 3600 ELSE 604800

\* C1: a request to a storage operation (upload, list, download, delete,
\* share, storage-stats) made without an authenticated session is answered
\* with the redirect to the login view and makes no call to S3, and no step
\* taken while nobody is logged in changes the bucket; this holds after any
\* sequence of register, login, logout and storage requests.
C1_AuthGate ==
    /\ [](last.op \in StorageOps /\ last.user = Anonymous
             => last.outcome = "login_redirect" /\ last.calls = 0)
    /\ [][session = Anonymous => store' = store]_vars

\* C1 witness: after a logout, with a file still in the bucket, a delete of
\* that file's key was turned away.
C1_Witness ==
    /\ last.op = "delete"
    /\ last.user = Anonymous
    /\ last.outcome = "login_redirect"
    /\ last.req \in Keys(store)

\* C2: a posted file is accepted if and only if its filename has an
\* extension of the allow-list (compared without regard to case) and its
\* size is at most 104857600 bytes.
C2_AcceptedIff ==
    (last.op = "upload" /\ last.user # Anonymous /\ last.req.hasFile)
        => (PassedValidation(last)
               <=> (HasAllowedExtension(last.req.filename)
                       /\ last.req.file.size <= 104857600))

\* C3: after an accepted upload of filename f the listing holds exactly one
\* entry that it did not hold before, and that entry's original_name is the
\* sanitized f.
C3_OneNewEntryNamed ==
    [][(UploadStep /\ last'.outcome = "uploaded")
          => LET new == DisplayEntries(store') \ DisplayEntries(store)
             IN  /\ Cardinality(new) = 1
                 /\ \A e \in new :
                       e.original_name = secure_filename(last'.req.filename)
      ]_vars

\* C4: every successful upload stores its file under a key no stored object
\* has: it overwrites nothing and the bucket grows by one object.
C4_KeysUnique ==
    [][(UploadStep /\ last'.outcome = "uploaded")
          => /\ UploadKey(last'.req, clock) \notin Keys(store)
             /\ store \subseteq store'
             /\ Cardinality(store') = Cardinality(store) + 1
      ]_vars

\* C5: unless the call to S3 itself fails, delete(k) answers success whether
\* or not k is stored, never an error or not-found; afterwards k is not in
\* the bucket nor in the listing and the other objects are as before; a
\* delete of a k that is not stored, such as a second delete in succession,
\* leaves the bucket unchanged.
C5_DeleteIdempotent ==
    /\ [](last.op = "delete" /\ last.user # Anonymous /\ last.fault = "none"
             => /\ last.outcome = "deleted"
                /\ last.req \notin Keys(store)
                /\ \A e \in DisplayEntries(store) : e.key # last.req)
    /\ [][(last'.op = "delete" /\ last'.outcome = "deleted")
             => /\ store' = {o \in store : o.Key # last'.req}
                /\ (last'.req \notin Keys(store) => store' = store)
                /\ (last'.repeat /\ last.outcome = "deleted" => store' = store)
         ]_vars

\* C5 witness: the one file of the bucket was deleted, and deleted again in
\* succession; both answered success and the bucket is empty.
C5_Witness ==
    /\ last.op = "delete"
    /\ last.repeat
    /\ last.outcome = "deleted"
    /\ last.req # MissingKey
    /\ store = {}

\* C6 as claimed: once the __main__ block has run, one probe has been made
\* and the process has not terminated: it serves requests.
C6_FallsBack == phase # "main" => (probes = 1 /\ phase = "serving")

\* C6 as amended: at most one probe is made, and none without credentials;
\* when the credentials are absent or the probe fails the process has
\* exited: no request is served, nobody is logged in and nothing is stored;
\* requests are served only after the one probe succeeded.
C6_ExitsOnFailure ==
    /\ probes <= 1
    /\ (last.op = "main"
           => /\ probes = (IF last.req THEN 1 ELSE 0)
              /\ (phase = "exited" <=> (~last.req \/ last.fault # "none")))
    /\ (phase = "exited"
           => last.op = "main" /\ session = Anonymous /\ store = {})
    /\ (phase = "serving" => probes = 1)

\* C6 witness: the probe found the endpoint unreachable and the process
\* exited.
C6_Witness ==
    /\ phase = "exited"
    /\ probes = 1
    /\ last.fault = "EndpointConnectionError"

\* C7: no failure of a call to S3 leaves a handler as an unhandled
\* exception: each is answered by the handler's own error message.
C7_FailuresCaught ==
    (last.op \in StorageOps /\ last.fault # "none")
        => last.outcome \in {"upload_error", "list_error", "delete_error",
                             "error_500_json"}

\* C8 as claimed: a link issued for a stored key returns, at any time before
\* its lifetime (3600 s from download, 604800 s from share) has elapsed, the
\* bytes put under the key, and is rejected from then on, whatever happened
\* in between.
C8_LinkReturnsBytes ==
    [][(Retrieve /\ held.etag # "none")
          => IF clock < held.url.Date + PromisedLifetime(held.route)
             THEN /\ last'.outcome = "200"
                  /\ last'.body = ContentAt(store, held.url.Key)
             ELSE last'.outcome = "403_expired"
      ]_vars

\* C8 as amended: before the lifetime has elapsed a retrieval returns the
\* bytes now stored under the key, or S3's not-found answer when the key is
\* not (or no longer) stored; from then on it is rejected.
C8_LinkWhileStored ==
    [][Retrieve
          => IF clock < held.url.Date + PromisedLifetime(held.route)
             THEN IF held.url.Key \in Keys(store)
                  THEN /\ last'.outcome = "200"
                       /\ last'.body = ContentAt(store, held.url.Key)
                  ELSE last'.outcome = "404_no_such_key"
             ELSE last'.outcome = "403_expired"
      ]_vars

\* C8 witness: a download link for a stored file was followed 3599 seconds
\* after it was issued, and returned the file.
C8_Witness ==
    /\ last.op = "retrieve"
    /\ last.outcome = "200"
    /\ held.route = "download"
    /\ held.etag # "none"
    /\ clock = held.url.Date + 3599

\* C9: a download or share request for a key that is not stored is answered
\* not-found, with no link.
C9_MissingKeyNotFound ==
    (last.op \in {"download", "share"} /\ last.user # Anonymous
        /\ last.req \notin Keys(store))
        => last.outcome = "not_found"

\* an upload the validator is to reject: no file field, an empty filename,
\* no extension or one outside the allow-list, or a body over the ceiling
ToBeRejected(req) ==
    /\ req.method = "POST"
    /\ \/ ~req.hasFile
       \/ req.filename = <<>>
       \/ ~HasAllowedExtension(req.filename)
       \/ ContentLength(req) > 104857600

\* C10: an upload that is to be rejected (no file field, empty filename, no
\* extension or one outside the allow-list, a body over the ceiling) makes
\* no call to S3 and leaves the bucket as it was.
C10_RejectedStoresNothing ==
    /\ [](last.op = "upload" /\ ToBeRejected(last.req)
             => /\ last.calls = 0
                /\ last.outcome \in {"login_redirect", "no_file_selected",
                                     "type_not_allowed", "too_large"})
    /\ [][(store' # store /\ last'.op = "upload")
             => ~ToBeRejected(last'.req)]_vars

\* C10 witness: with a file in the bucket, a logged-in user's "x.exe" was
\* refused.
C10_Witness ==
    /\ last.op = "upload"
    /\ last.user # Anonymous
    /\ last.outcome = "type_not_allowed"
    /\ store # {}

=============================================================================
